---- MODULE Spec2Model ----
(***************************************************************************)
(* FEBioVFM: the VFM task (setup, solve, export), the Levenberg-Marquardt  *)
(* residual callback with its cancellation flag, the parameter applier and *)
(* the internal / external virtual-work assemblers.                        *)
(*                                                                         *)
(* Tensors are scalars (one solid element, one integration point, one      *)
(* spatial direction): F = 1 + sum_a u_a * gradN_a with gradN_a = 1,       *)
(* G = F* - 1, P = J * sigma / F.  Time frames, virtual fields and         *)
(* parameters keep their structure.  Sequences are 1-based: frame t of the *)
(* source is element t+1 here, W[v*T+t] is W[(v-1)*T + t].                 *)
(***************************************************************************)
EXTENDS Integers, Sequences, FiniteSets, TLC

\* ---------------------------------------------------------------- bounds
MaxT == 3            \* largest number of load / measured frames
MaxVF == 2           \* largest number of virtual fields
MaxParams == 2       \* largest number of parameters
MaxEvals == 3        \* residual callbacks LM may request in one run
MaxInterrupts == 1   \* SIGINT deliveries

\* ------------------------------------------------------- input data
NNodes == 2                     \* nodes of the element
LoVal == 1                      \* spec.lo of every parameter of the input
HiVal == 2                      \* spec.hi of every parameter of the input
FeValue == 0                    \* value of the material parameter in the model file
Unset == 0 - 1                  \* a tensor entry that was allocated and never written
Garbage == {0, 7}               \* what an out-of-range frame read may deliver

Grip == "grip"                  \* the surface the loads name
SurfaceNodes == <<2, 1>>        \* node set that surface resolves to

\* virtual nodal displacement of field v, frame k, node n: all distinct
UStar(v, k, n) == ((v - 1) * (MaxT + 2) + (k - 1)) * NNodes + n

VirtualFrame(v, k) == [n \in 1..NNodes |-> UStar(v, k, n)]

\* a virtual field with cnt frames
VirtualSeries(v, cnt) == [k \in 1..cnt |-> VirtualFrame(v, k)]

\* measured nodal displacement of frame t (the same at every node)
MeasU(t) == [n \in 1..NNodes |-> t]

\* load frame t: one resultant force on the grip surface
LoadFrame(t) == <<[surface |-> Grip, force |-> t]>>

\* ------------------------------------------------------------ kinematics
RECURSIVE SumNodes(_, _)
SumNodes(u, n) == IF n = 0 THEN 0 ELSE u[n] + SumNodes(u, n - 1)

\* F = I + sum_a u_a (x) gradN_a
F_at(u) == 1 + SumNodes(u, NNodes)

toVirtGrad(Fstar) == Fstar - 1

\* ------------------------------------------------- double arithmetic
Abs(x) == IF x < 0 THEN 0 - x ELSE x

RECURSIVE Gcd(_, _)
Gcd(a, b) == IF b = 0 THEN a ELSE Gcd(b, a % b)

\* a double as the fraction n/d in lowest terms, d > 0; 1/0 is the infinity
\* a division by zero delivers
Rat(n, d) ==
    IF d = 0 THEN [n |-> 1, d |-> 0]
    ELSE LET g == Gcd(Abs(n), Abs(d))
             sg == IF d < 0 THEN 0 - 1 ELSE 1
         IN [n |-> (sg * n) \div g, d |-> (sg * d) \div g]

Mul(a, b) == Rat(a.n * b.n, a.d * b.d)

Recip(a) == Rat(a.d, a.n)

\* --------------------------------------------------- constitutive driver
\* the material law of the collaborator: a function of the backing store and F
MatStress(store, F) ==
    (IF Len(store) >= 1 THEN store[1] * (F - 1) ELSE 0)
  + (IF Len(store) >= 2 THEN store[2] * (F - 1) * (F - 1) ELSE 0)

FirstPiolaOf(F, s) == (F * s) \div F

\* mutant: a frame that already holds a stress is not computed again
cauchyKeepsOld(def, stresses, store, matOk) ==
    LET grown == [t \in 1..(IF Len(stresses) < Len(def) THEN Len(def) ELSE Len(stresses)) |->
                     IF t <= Len(stresses) THEN stresses[t]
                     ELSE [sigma |-> Unset, P |-> Unset]]
    IN IF Len(def) >= 1 /\ ~matOk
       THEN [ok |-> FALSE, err |-> "no FEElasticMaterialPoint", stresses |-> grown]
       ELSE [ok |-> TRUE, err |-> "",
             stresses |-> [t \in 1..Len(grown) |->
                             IF t <= Len(def) /\ grown[t].sigma = Unset
                             THEN [grown[t] EXCEPT !.sigma = MatStress(store, def[t])]
                             ELSE grown[t]]]

\* StressEval::cauchy: frames are added to match F, then filled in order;
\* the first material failure abandons the loop
cauchy(def, stresses, store, matOk) ==
    LET grown == [t \in 1..(IF Len(stresses) < Len(def) THEN Len(def) ELSE Len(stresses)) |->
                     IF t <= Len(stresses) THEN stresses[t]
                     ELSE [sigma |-> Unset, P |-> Unset]]
    IN IF Len(def) >= 1 /\ ~matOk
       THEN [ok |-> FALSE, err |-> "no FEElasticMaterialPoint", stresses |-> grown]
       ELSE [ok |-> TRUE, err |-> "",
             stresses |-> [t \in 1..Len(grown) |->
                             IF t <= Len(def)
                             THEN [grown[t] EXCEPT !.sigma = MatStress(store, def[t])]
                             ELSE grown[t]]]

\* StressEval::first_piola: P = J sigma F^-T, J <= 0 is an error
first_piola(def, stresses) ==
    LET bad == {t \in 1..Len(def) : def[t] <= 0}
        stop == IF bad = {} THEN Len(def) + 1
                ELSE CHOOSE t \in bad : \A o \in bad : t <= o
    IN [ok |-> bad = {},
        err |-> IF bad = {} THEN "" ELSE "non-positive detF",
        stresses |-> [t \in 1..Len(stresses) |->
                        IF t < stop /\ t <= Len(def)
                        THEN [stresses[t] EXCEPT !.P = FirstPiolaOf(def[t], stresses[t].sigma)]
                        ELSE stresses[t]]]

\* the computeStress closure of solve_vfm_problem
computeStress(def, stresses, store, matOk) ==
    LET c == cauchy(def, stresses, store, matOk)
    IN IF ~c.ok THEN c ELSE first_piola(def, c.stresses)

\* what a stress store computed from scratch with the given store holds
StressFrom(def, store) ==
    [t \in 1..Len(def) |->
        [sigma |-> MatStress(store, def[t]),
         P |-> FirstPiolaOf(def[t], MatStress(store, def[t]))]]

\* ------------------------------------------------ internal virtual work
JW == 1                         \* det(J0) * Gauss weight of the integration point

\* mutant: every field is treated as time-invariant
IWFrameFirst(vfTimes, T, t) == 1

\* the frame of a virtual field the internal-work loop reads at time t
IWFrame(vfTimes, T, t) == IF vfTimes < T /\ vfTimes = 1 THEN 1 ELSE t

\* a virtual field the internal-work loop refuses
IWRejects(vfTimes, T) == vfTimes = 0 \/ (vfTimes < T /\ vfTimes # 1)

IWError(vfTimes) ==
    IF vfTimes = 0 THEN "virtual field has no time steps."
    ELSE "virtual field has fewer time steps. A constant field can be defined using a single time entry."

\* the loops of InternalWorkAssembler::operator() after the two closures ran
IWAssemble(vdef, stresses) ==
    LET VF == Len(vdef)
        T == Len(stresses)
        bad == {v \in 1..VF : IWRejects(Len(vdef[v]), T)}
    IN IF VF = 0 \/ T = 0 THEN [W |-> <<>>, err |-> "", reads |-> {}]
       ELSE IF bad # {}
       THEN [W |-> <<>>,
             err |-> IWError(Len(vdef[CHOOSE v \in bad : \A o \in bad : v <= o])),
             reads |-> {}]
       ELSE [W |-> [k \in 1..(VF * T) |->
                      LET v == ((k - 1) \div T) + 1
                          t == ((k - 1) % T) + 1
                      IN stresses[t].P * toVirtGrad(vdef[v][IWFrame(Len(vdef[v]), T, t)]) * JW],
             err |-> "",
             reads |-> {<<v, t, IWFrame(Len(vdef[v]), T, t)>> : v \in 1..VF, t \in 1..T}]

\* ------------------------------------------------ external virtual work
\* useSingleTime is declared once, before the loop over the virtual fields,
\* and is only ever set: it holds at field v when some field up to v is short
EWUseSingleTime(virtuals, T, v) == \E w \in 1..v : Len(virtuals[w]) < T

EWFrame(virtuals, T, v, t) == IF EWUseSingleTime(virtuals, T, v) THEN 1 ELSE t

\* the first entry of a load frame whose surface is unmapped or has no nodes
EWBadEntries(entries, surfaces) ==
    {i \in 1..Len(entries) :
        \/ entries[i].surface \notin DOMAIN surfaces
        \/ surfaces[entries[i].surface] = <<>>}

EWEntryError(entry, surfaces) ==
    IF entry.surface \notin DOMAIN surfaces
    THEN "missing surface mapping for " \o entry.surface
    ELSE "surface with no nodes: " \o entry.surface

RECURSIVE EWAcc(_, _, _, _)
EWAcc(entries, surfaces, u, i) ==
    IF i = 0 THEN 0
    ELSE entries[i].force * u[Head(surfaces[entries[i].surface])]
         + EWAcc(entries, surfaces, u, i - 1)

\* ExternalVirtualWorkAssembler::operator().  junk is the frame an
\* out-of-range getTime delivers; oob reports that such a read happened
RECURSIVE EWLoop(_, _, _, _, _, _, _)
EWLoop(surfaces, virtuals, loads, junk, k, W, oob) ==
    LET VF == Len(virtuals)
        T == Len(loads)
    IN IF k > VF * T THEN [W |-> W, err |-> "", oob |-> oob]
       ELSE LET v == ((k - 1) \div T) + 1
                t == ((k - 1) % T) + 1
                fr == EWFrame(virtuals, T, v, t)
                inRange == fr <= Len(virtuals[v])
                u == IF inRange THEN virtuals[v][fr] ELSE [n \in 1..NNodes |-> junk]
                bad == EWBadEntries(loads[t], surfaces)
            IN IF bad # {}
               THEN [W |-> <<>>,
                     err |-> EWEntryError(loads[t][CHOOSE i \in bad : \A o \in bad : i <= o], surfaces),
                     oob |-> oob \/ ~inRange]
               ELSE EWLoop(surfaces, virtuals, loads, junk, k + 1,
                           Append(W, EWAcc(loads[t], surfaces, u, Len(loads[t]))),
                           oob \/ ~inRange)

ExternalWork(surfaces, virtuals, loads, junk) ==
    IF Len(virtuals) = 0 \/ Len(loads) = 0 THEN [W |-> <<>>, err |-> "", oob |-> FALSE]
    ELSE EWLoop(surfaces, virtuals, loads, junk, 1, <<>>, FALSE)

\* ------------------------------------------------------ parameter applier
\* store[j] is what the model holds at the location the name of record j
\* resolves to: records of one name share the location, so a write through
\* the pointer of record i shows at every record of that name
WriteThrough(store, params, i, x) ==
    [j \in 1..Len(store) |->
        IF j <= Len(params) /\ params[j].name = params[i].name THEN x ELSE store[j]]

\* FEBioParameterApplier::apply: the null-pointer test sits inside the write loop
RECURSIVE ApplyLoop(_, _, _, _, _)
ApplyLoop(p, ptrs, store, params, i) ==
    IF i > Len(p) THEN [ok |-> TRUE, err |-> "", store |-> store, params |-> params]
    ELSE IF ~ptrs[i]
    THEN [ok |-> FALSE, err |-> "null FE ptr for " \o params[i].name,
          store |-> store, params |-> params]
    ELSE ApplyLoop(p, ptrs,
                   WriteThrough(store, params, i, p[i]),
                   [params EXCEPT ![i].value = p[i]], i + 1)

apply(p, ptrs, store, params) ==
    IF Len(p) # Len(params)
    THEN [ok |-> FALSE, err |-> "param size mismatch", store |-> store, params |-> params]
    ELSE ApplyLoop(p, ptrs, store, params, 1)

ParamValues(params) == [i \in 1..Len(params) |-> params[i].value]

\* ------------------------------------------------------------ the inputs
Faults == {"none", "ext", "mesh", "node", "params", "pname", "pbounds", "pbelow",
           "pscale", "det", "vdet", "surface"}

\* the faults that make one parameter record of the input invalid
ParamFaults == {"params", "pname", "pbounds", "pbelow", "pscale"}

Methods == {"Levmar", "ConstrainedLevmar"}

\* XMLInput::Param of parameter i; a parameter fault spoils the last record:
\* "params" puts its init above hi, "pbelow" below lo, "pname" empties its
\* name, "pbounds" puts lo above hi, "pscale" makes its scale zero
ParamSpec(i, n, fault) ==
    [name |-> IF fault = "pname" /\ i = n THEN ""
              ELSE IF i = 1 THEN "mu" ELSE "k",
     init |-> IF fault = "params" /\ i = n THEN HiVal + 1
              ELSE IF fault = "pbelow" /\ i = n THEN LoVal - 1
              ELSE IF i = 1 THEN LoVal ELSE HiVal,
     lo |-> IF fault = "pbounds" /\ i = n THEN HiVal + 1 ELSE LoVal,
     hi |-> HiVal,
     scale |-> IF fault = "pscale" /\ i = n THEN 0 ELSE 1]

Inputs ==
    [T : 1..MaxT,                       \* load frames
     TM : 0..MaxT,                      \* measured frames
     vfTimes : UNION {[1..n -> 0..(MaxT + 1)] : n \in 0..MaxVF},
     nParams : 0..MaxParams,
     ptrs : [1..MaxParams -> BOOLEAN],  \* does the model resolve the name
     method : Methods,
     matOk : BOOLEAN,                   \* does the material point clone work
     save : BOOLEAN,                    \* Options/save_virtual_work is set
     surf : {Grip, ""},                 \* the id attribute of the load entries
     dup : BOOLEAN,                     \* the last parameter repeats the first name
     fault : Faults]

\* inputs are enumerated without repeating equivalent ones: a faulty input
\* is one fault on an otherwise plain input, one frame more than T stands
\* for every count above T, and a failing material, the unconstrained
\* method and differing load and measured counts come with frame counts
\* of 1 or T; load entries without an id come on a plain input
PlainInput(i) ==
    /\ i.T = i.TM
    /\ \A v \in 1..Len(i.vfTimes) : i.vfTimes[v] = i.T
    /\ \A k \in 1..MaxParams : i.ptrs[k]
    /\ i.matOk
    /\ i.method = "ConstrainedLevmar"

WellFormedInput(i) ==
    /\ \A v \in 1..Len(i.vfTimes) : i.vfTimes[v] <= i.T + 1
    /\ \A k \in (i.nParams + 1)..MaxParams : i.ptrs[k]
    /\ i.fault # "none" => PlainInput(i) /\ ~i.save
    /\ i.save => PlainInput(i)
    /\ i.surf = "" => PlainInput(i) /\ i.fault = "none" /\ ~i.save
    /\ i.dup => i.nParams >= 2 /\ PlainInput(i) /\ i.fault = "none" /\ ~i.save /\ i.surf = Grip
    /\ i.fault \in ParamFaults => i.nParams >= 1
    /\ i.fault = "det" => i.TM >= 1
    /\ i.fault = "vdet" => Len(i.vfTimes) >= 1
    /\ (~i.matOk \/ i.method = "Levmar") => i.T = i.TM
    /\ (~i.matOk \/ i.method = "Levmar" \/ i.T # i.TM) =>
          \A v \in 1..Len(i.vfTimes) : i.vfTimes[v] \in {1, i.T}

\* ------------------------------------------------------------- the state
VARIABLES
    input,              \* the model file and the XML DTO, fixed
    problem,            \* VFMTask::m_problem
    feStore,            \* the material parameters inside the FE model
    pc,                 \* where the task is
    exitAt,             \* the return statement a failing phase left through
    err,                \* the error string of the running phase
    ew,                 \* external work vector of solve_vfm_problem
    lmParams,           \* params: the vector LM owns and updates in place
    ctx,                \* LevmarContext
    status,             \* value returned by dlevmar_*
    g_levmarInterrupt,  \* the process-wide cancellation flag
    sigint,             \* handler bound to SIGINT
    plot,               \* the plot file on disk
    hist,               \* bookkeeping of the run, read by the properties only
    Fmat,               \* mat3d F of one integration point in compute_measured
    passes              \* how often the plane-deformation block ran on Fmat

\* the variables of the kinematics of one integration point
planeVars == <<Fmat, passes>>

vars == <<input, problem, feStore, pc, exitAt, err, ew, lmParams, ctx, status,
          g_levmarInterrupt, sigint, plot, hist, Fmat, passes>>

\* VFMProblem::reset
ResetProblem ==
    [fem |-> FALSE, dims |-> FALSE, surfaces |-> <<>>,
     params |-> <<>>, measured |-> <<>>, virtuals |-> <<>>, loads |-> <<>>,
     def |-> <<>>, vdef |-> <<>>, stresses |-> <<>>,
     method |-> "ConstrainedLevmar", saveVirtualWork |-> ""]

NoHist ==
    [theta0 |-> <<>>,       \* params when LM was entered
     lmEntered |-> FALSE,
     calls |-> 0,           \* residual callbacks so far
     firstLatch |-> 0,      \* callback that latched ctx.failed, 0: none
     intAfter |-> 0 - 1,    \* callbacks completed when SIGINT set the flag
     interrupts |-> 0,
     applyFailed |-> FALSE, \* the last apply call reported failure
     applyStore |-> <<>>,   \* backing store before the last apply call
     applyValues |-> <<>>,  \* record values before the last apply call
     applyTheta |-> <<>>,   \* the vector of the last apply call of a callback
     ewDone |-> FALSE,      \* the external assembler returned a vector
     ewOob |-> FALSE,
     hx |-> <<>>,           \* residual buffer after the last callback
     iw |-> <<>>,           \* last internal work vector
     iwReads |-> {},        \* <<v, t, frame>> it read
     iwTheta |-> <<>>,      \* backing store it was computed with
     cleared |-> FALSE,     \* the handler guard found the flag set
     logLine |-> <<>>]      \* the "LM eval" line the last callback wrote, if any

\* g_levmarInterrupt is a static of the process: an earlier solve that was
\* interrupted leaves it set.  Such a start is enumerated on the smallest
\* plain inputs
EarlierRunInput(i) ==
    /\ PlainInput(i) /\ i.fault = "none" /\ ~i.save /\ i.surf = Grip /\ ~i.dup
    /\ i.T = 1 /\ i.nParams = 1

Init ==
    /\ input \in {i \in Inputs : WellFormedInput(i)}
    /\ problem = ResetProblem
    /\ feStore = [i \in 1..input.nParams |-> FeValue]
    /\ pc = "start"
    /\ exitAt = ""
    /\ err = ""
    /\ ew = <<>>
    /\ lmParams = <<>>
    /\ ctx = [failed |-> FALSE, evalCount |-> 0]
    /\ status = 0
    /\ g_levmarInterrupt \in (IF EarlierRunInput(input) THEN BOOLEAN ELSE {FALSE})
    /\ sigint = "previous"
    /\ plot = [created |-> FALSE, states |-> 0]
    /\ hist = NoHist
    /\ Fmat = <<>>
    /\ passes = 0

\* ------------------------------------------------------------------ setup
\* mutant: the scale of a record is not looked at
ParamErrorNoScale(p) ==
    IF p.name = "" THEN "Parameters: empty name"
    ELSE IF ~(p.lo <= p.hi) THEN "Parameters[" \o p.name \o "]: invalid bounds"
    ELSE IF ~(p.init >= p.lo /\ p.init <= p.hi) THEN "Parameters[" \o p.name \o "]: init out of bounds"
    ELSE ""

\* VFMLoader::load_params: records are pushed until the first invalid one
ParamError(p) ==
    IF p.name = "" THEN "Parameters: empty name"
    ELSE IF ~(p.lo <= p.hi) THEN "Parameters[" \o p.name \o "]: invalid bounds"
    ELSE IF ~(p.init >= p.lo /\ p.init <= p.hi) THEN "Parameters[" \o p.name \o "]: init out of bounds"
    ELSE IF p.scale = 0 THEN "Parameters[" \o p.name \o "]: invalid scale"
    ELSE ""

load_params(dto) ==
    LET bad == {k \in 1..Len(dto) : ParamError(dto[k]) # ""}
        stop == IF bad = {} THEN Len(dto) + 1 ELSE CHOOSE k \in bad : \A o \in bad : k <= o
    IN [ok |-> bad = {},
        err |-> IF bad = {} THEN "" ELSE ParamError(dto[stop]),
        params |-> [k \in 1..(stop - 1) |->
                      [name |-> dto[k].name, init |-> dto[k].init, lo |-> dto[k].lo,
                       hi |-> dto[k].hi, scale |-> dto[k].scale, value |-> dto[k].init]]]

\* mutant: the determinant of the measured gradients is not checked
compute_measured_unchecked(measured) ==
    [err |-> "", def |-> [t \in 1..Len(measured) |-> F_at(measured[t])]]

\* Kinematics::compute_measured with checkDet: frames are written until the
\* first non-positive determinant
compute_measured(measured) ==
    LET bad == {t \in 1..Len(measured) : F_at(measured[t]) <= 0}
        stop == IF bad = {} THEN Len(measured) + 1 ELSE CHOOSE t \in bad : \A o \in bad : t <= o
    IN [err |-> IF bad = {} THEN "" ELSE "non-positive det(F)",
        def |-> [t \in 1..Len(measured) |-> IF t < stop THEN F_at(measured[t]) ELSE Unset]]

\* Kinematics::compute_virtuals with checkDet, same scheme over (v, t)
compute_virtuals(virtuals) ==
    LET bad == {vt \in {<<v, t>> : v \in 1..Len(virtuals), t \in 1..(MaxT + 2)} :
                   vt[2] <= Len(virtuals[vt[1]]) /\ F_at(virtuals[vt[1]][vt[2]]) <= 0}
        Before(a, b) == a[1] < b[1] \/ (a[1] = b[1] /\ a[2] < b[2])
        stop == IF bad = {} THEN <<Len(virtuals) + 1, 1>>
                ELSE CHOOSE a \in bad : \A o \in bad : a = o \/ Before(a, o)
    IN [err |-> IF bad = {} THEN "" ELSE "non-positive det(F)",
        vdef |-> [v \in 1..Len(virtuals) |->
                    [t \in 1..Len(virtuals[v]) |->
                        IF Before(<<v, t>>, stop) THEN F_at(virtuals[v][t]) ELSE Unset]]]

\* the measured displacement frames of the input
MeasuredOf(i) ==
    [t \in 1..i.TM |-> IF i.fault = "det" THEN [n \in 1..NNodes |-> 0 - t] ELSE MeasU(t)]

\* the Parameters block of the input
XmlParams(i) ==
    [k \in 1..i.nParams |->
        IF i.dup /\ k = i.nParams
        THEN [ParamSpec(k, i.nParams, i.fault) EXCEPT !.name = ParamSpec(1, i.nParams, i.fault).name]
        ELSE ParamSpec(k, i.nParams, i.fault)]

\* the virtual fields of the input; the fault "vdet" turns the last frame of
\* the last field into one whose deformation gradient has det <= 0
VirtualsOf(i) ==
    [v \in 1..Len(i.vfTimes) |->
        [k \in 1..i.vfTimes[v] |->
            IF i.fault = "vdet" /\ v = Len(i.vfTimes) /\ k = i.vfTimes[v]
            THEN [n \in 1..NNodes |-> 0 - UStar(v, k, n)]
            ELSE VirtualSeries(v, i.vfTimes[v])[k]]]

\* load_measuredF: every entry carries the id the XML gave it, "" when the
\* surface tag has no id attribute
load_measuredF(i) ==
    [t \in 1..i.T |->
        [e \in 1..Len(LoadFrame(t)) |-> [LoadFrame(t)[e] EXCEPT !.surface = i.surf]]]

\* collect_surface_names: the distinct non-empty names of the load entries
collect_surface_names(loads) ==
    UNION {{loads[t][e].surface : e \in 1..Len(loads[t])} : t \in 1..Len(loads)} \ {""}

\* prepare_vfm_problem: the problem as it is left, with the verdict.
\* build_mesh_info and build_surface_info lie outside the sources at hand:
\* whether they fail is an input (faults "mesh", "surface"), the message
\* they leave stands for theirs
prepare_vfm_problem(i) ==
    LET p0 == [ResetProblem EXCEPT !.fem = TRUE, !.method = i.method,
                                   !.saveVirtualWork = IF i.fault = "ext" THEN "vw.csv"
                                                        ELSE IF i.save THEN "vw.txt" ELSE ""]
        p1 == [p0 EXCEPT !.dims = TRUE]
        lp == load_params(XmlParams(i))
        p2 == [p1 EXCEPT !.params = lp.params]
        meas == MeasuredOf(i)
        virt == VirtualsOf(i)
        km == compute_measured(meas)
        kv == compute_virtuals(virt)
        p3 == [p2 EXCEPT !.measured = meas, !.virtuals = virt,
                         !.loads = load_measuredF(i),
                         !.def = km.def, !.vdef = kv.vdef]
        kinErr == IF kv.err # "" THEN kv.err ELSE km.err
        surfaceNames == collect_surface_names(p3.loads)
        p4 == IF surfaceNames = {} THEN p3
              ELSE [p3 EXCEPT !.surfaces = [n \in surfaceNames |-> SurfaceNodes]]
    IN IF i.fault = "ext"
       THEN [ok |-> FALSE, at |-> "ext", problem |-> p0,
             err |-> "Options/save_virtual_work must use a .txt extension."]
       ELSE IF i.fault = "mesh"
       THEN [ok |-> FALSE, at |-> "mesh", problem |-> p0, err |-> "model has a non-solid domain"]
       ELSE IF i.fault = "node"
       THEN [ok |-> FALSE, at |-> "measuredU", problem |-> p1,
             err |-> "Unknown node id in measuredU: 99"]
       ELSE IF ~lp.ok
       THEN [ok |-> FALSE, at |-> "params", problem |-> p2, err |-> lp.err]
       ELSE IF kinErr # ""
       THEN [ok |-> FALSE, at |-> "kinematics", problem |-> p3, err |-> kinErr]
       ELSE IF i.fault = "surface" /\ surfaceNames # {}
       THEN [ok |-> FALSE, at |-> "surfaces", problem |-> p3,
             err |-> "surface not found: " \o Grip]
       ELSE [ok |-> TRUE, at |-> "", problem |-> p4, err |-> ""]

\* VFMTask::Init
TaskInit ==
    /\ pc = "start"
    /\ LET r == prepare_vfm_problem(input)
       IN /\ problem' = r.problem
          /\ err' = r.err
          /\ exitAt' = r.at
          /\ pc' = IF r.ok THEN "ready" ELSE "setupFailed"
    /\ UNCHANGED <<input, feStore, ew, lmParams, ctx, status, g_levmarInterrupt,
                   sigint, plot, hist>>
    /\ UNCHANGED planeVars

\* ------------------------------------------------------------------ solve
\* the pointer cache FEBioParameterApplier::_build_cache builds
build_cache(params) == [k \in 1..Len(params) |-> input.ptrs[k]]

\* the vectors dlevmar may hand to the residual callback after the first
TrialSet(m, method) ==
    IF method = "ConstrainedLevmar" THEN [1..m -> LoVal..HiVal]
    ELSE [1..m -> (LoVal - 1)..HiVal]

\* |opts[4]|: the step of the finite-difference Jacobian of dlevmar
DiffDelta == 1

\* the vectors around its estimate p at which dlevmar asks for the residual
\* to approximate the Jacobian by central differences; the box is not
\* consulted for them
JacobianProbes(p) ==
    {[p EXCEPT ![j] = p[j] + d] : j \in 1..Len(p), d \in {DiffDelta, 0 - DiffDelta}}

Zeros(n) == [k \in 1..n |-> 0]

\* VFMTask::Run up to solve_vfm_problem, solve_vfm_problem up to the LM call,
\* run_vfm_levmar up to the installation of the SIGINT handler
SolveEnter ==
    /\ pc = "ready"
    /\ \E junk \in Garbage :
         LET r == ExternalWork(problem.surfaces, problem.virtuals, problem.loads, junk)
             h == [hist EXCEPT !.ewDone = (r.err = ""), !.ewOob = r.oob]
         IN IF ~problem.fem
            THEN /\ pc' = "runFailed" /\ exitAt' = "notInit"
                 /\ err' = "VFM problem not initialized."
                 /\ UNCHANGED <<ew, lmParams, ctx, sigint, hist>>
            ELSE IF problem.params = <<>>
            THEN /\ pc' = "solved" /\ exitAt' = "" /\ err' = ""
                 /\ UNCHANGED <<ew, lmParams, ctx, sigint, hist>>
            ELSE IF r.err # ""
            THEN /\ pc' = "runFailed" /\ exitAt' = "ew" /\ err' = r.err
                 /\ ew' = r.W /\ hist' = h
                 /\ UNCHANGED <<lmParams, ctx, sigint>>
            ELSE IF r.W = <<>>
            THEN /\ pc' = "solved" /\ exitAt' = "" /\ err' = ""
                 /\ ew' = r.W /\ hist' = h
                 /\ UNCHANGED <<lmParams, ctx, sigint>>
            ELSE /\ pc' = "lm_install" /\ exitAt' = "" /\ err' = ""
                 /\ ew' = r.W
                 /\ lmParams' = ParamValues(problem.params)
                 /\ ctx' = [failed |-> FALSE, evalCount |-> 0]
                 /\ sigint' = "handle_sigint"
                 /\ hist' = [h EXCEPT !.theta0 = ParamValues(problem.params),
                                      !.lmEntered = TRUE]
    /\ UNCHANGED <<input, problem, feStore, status, g_levmarInterrupt, plot>>
    /\ UNCHANGED planeVars

\* TimeSeries::getTime asserts its index: with assertions compiled in, the
\* out-of-range read of the external assembler aborts the process
SolveAbort ==
    /\ pc = "ready"
    /\ problem.fem /\ problem.params # <<>>
    /\ ExternalWork(problem.surfaces, problem.virtuals, problem.loads, 0).oob
    /\ pc' = "aborted"
    /\ UNCHANGED <<input, problem, feStore, exitAt, err, ew, lmParams, ctx, status,
                   g_levmarInterrupt, sigint, plot, hist>>
    /\ UNCHANGED planeVars

\* mutant: the guard binds the handler and leaves the flag as it finds it
SigintGuardKeepsFlag ==
    /\ pc = "lm_install"
    /\ g_levmarInterrupt' = g_levmarInterrupt
    /\ pc' = "lm"
    /\ hist' = [hist EXCEPT !.cleared = g_levmarInterrupt]
    /\ UNCHANGED <<input, problem, feStore, exitAt, err, ew, lmParams, ctx, status,
                   sigint, plot>>
    /\ UNCHANGED planeVars

\* ScopedSigintHandler(): the flag is cleared after the handler is bound
SigintGuard ==
    /\ pc = "lm_install"
    /\ g_levmarInterrupt' = FALSE
    /\ pc' = "lm"
    /\ hist' = [hist EXCEPT !.cleared = g_levmarInterrupt]
    /\ UNCHANGED <<input, problem, feStore, exitAt, err, ew, lmParams, ctx, status,
                   sigint, plot>>
    /\ UNCHANGED planeVars

\* handle_sigint, run on a SIGINT while it is the bound handler
Interrupt ==
    /\ sigint = "handle_sigint"
    /\ hist.interrupts < MaxInterrupts
    /\ g_levmarInterrupt' = TRUE
    /\ hist' = [hist EXCEPT !.interrupts = @ + 1, !.intAfter = hist.calls]
    /\ UNCHANGED <<input, problem, feStore, pc, exitAt, err, ew, lmParams, ctx, status,
                   sigint, plot>>
    /\ UNCHANGED planeVars

\* mutant: the assembler turns the virtual gradients into G = F* - I in place
InternalWorkInPlace(theta, ptrs, store, prob, matOk) ==
    LET a == apply(theta, ptrs, store, prob.params)
        s == computeStress(prob.def, prob.stresses, a.store, matOk)
        w == IWAssemble(prob.vdef, s.stresses)
        g == [v \in 1..Len(prob.vdef) |->
                [t \in 1..Len(prob.vdef[v]) |-> toVirtGrad(prob.vdef[v][t])]]
    IN [W |-> w.W, err |-> IF ~a.ok THEN a.err ELSE IF ~s.ok THEN s.err ELSE w.err,
        reads |-> w.reads, store |-> a.store, applied |-> a.ok,
        problem |-> [prob EXCEPT !.params = a.params, !.stresses = s.stresses,
                                 !.vdef = g]]

\* mutant: the stresses are recomputed before the parameters are applied
InternalWorkStressFirst(theta, ptrs, store, prob, matOk) ==
    LET a == apply(theta, ptrs, store, prob.params)
        s == computeStress(prob.def, prob.stresses, store, matOk)
        w == IWAssemble(prob.vdef, s.stresses)
    IN IF ~a.ok
       THEN [W |-> <<>>, err |-> a.err, reads |-> {}, store |-> a.store, applied |-> FALSE,
             problem |-> [prob EXCEPT !.params = a.params]]
       ELSE IF ~s.ok
       THEN [W |-> <<>>, err |-> s.err, reads |-> {}, store |-> a.store, applied |-> TRUE,
             problem |-> [prob EXCEPT !.params = a.params, !.stresses = s.stresses]]
       ELSE [W |-> w.W, err |-> w.err, reads |-> w.reads, store |-> a.store, applied |-> TRUE,
             problem |-> [prob EXCEPT !.params = a.params, !.stresses = s.stresses]]

\* InternalWorkAssembler::operator() with the closures of solve_vfm_problem
InternalWork(theta, ptrs, store, prob, matOk) ==
    LET a == apply(theta, ptrs, store, prob.params)
        s == computeStress(prob.def, prob.stresses, a.store, matOk)
        w == IWAssemble(prob.vdef, s.stresses)
    IN IF ~a.ok
       THEN [W |-> <<>>, err |-> a.err, reads |-> {}, store |-> a.store, applied |-> FALSE,
             problem |-> [prob EXCEPT !.params = a.params]]
       ELSE IF ~s.ok
       THEN [W |-> <<>>, err |-> s.err, reads |-> {}, store |-> a.store, applied |-> TRUE,
             problem |-> [prob EXCEPT !.params = a.params, !.stresses = s.stresses]]
       ELSE [W |-> w.W, err |-> w.err, reads |-> w.reads, store |-> a.store, applied |-> TRUE,
             problem |-> [prob EXCEPT !.params = a.params, !.stresses = s.stresses]]

\* mutant: a latched callback still polls the cancellation flag for the text
EvalLatchedPolls(n, h) ==
    /\ hist' = [h EXCEPT !.hx = Zeros(n), !.logLine = <<>>]
    /\ err' = IF g_levmarInterrupt THEN "optimization interrupted" ELSE err
    /\ UNCHANGED <<problem, feStore, ctx>>

\* lm_internal_eval when ctx.failed is already set: zeros, nothing else
EvalLatched(n, h) ==
    /\ hist' = [h EXCEPT !.hx = Zeros(n), !.logLine = <<>>]
    /\ UNCHANGED <<problem, feStore, err, ctx>>

\* lm_internal_eval when the cancellation flag is found set
EvalCancelled(n, h) ==
    /\ err' = IF err = "" THEN "optimization interrupted" ELSE err
    /\ ctx' = [ctx EXCEPT !.failed = TRUE]
    /\ hist' = [h EXCEPT !.hx = Zeros(n), !.firstLatch = hist.calls + 1,
                         !.logLine = <<>>]
    /\ UNCHANGED <<problem, feStore>>

\* sum of the squared differences of the first i components
RECURSIVE SumSq(_, _, _)
SumSq(iw, x, i) ==
    IF i = 0 THEN 0
    ELSE LET d == (IF i <= Len(iw) THEN iw[i] ELSE 0) - x[i]
         IN d * d + SumSq(iw, x, i - 1)

\* the line lm_internal_eval logs: index, cost (<<>> stands for "N/A") and
\* the vector it was called with
LogLine(k, iw, p, n) ==
    [index |-> k,
     cost |-> IF Len(ew) = n THEN <<Rat(SumSq(iw, ew, n), 2)>> ELSE <<>>,
     params |-> p]

\* mutant: the line carries the count of the lines before it
EvalResidualOldIndex(theta, n, h) ==
    LET r == InternalWork(theta, build_cache(problem.params), feStore, problem, input.matOk)
        ha == [h EXCEPT !.applyFailed = ~r.applied,
                        !.applyStore = feStore,
                        !.applyValues = ParamValues(problem.params),
                        !.applyTheta = theta,
                        !.iw = r.W, !.iwReads = r.reads, !.iwTheta = r.store]
    IN /\ problem' = r.problem
       /\ feStore' = r.store
       /\ IF Len(r.W) # n
          THEN /\ err' = IF r.err = "" THEN "internal work dimension mismatch" ELSE r.err
               /\ ctx' = [ctx EXCEPT !.failed = TRUE]
               /\ hist' = [ha EXCEPT !.hx = Zeros(n), !.firstLatch = hist.calls + 1,
                                     !.logLine = <<>>]
          ELSE /\ err' = IF r.err # "" THEN r.err ELSE err
               /\ ctx' = [ctx EXCEPT !.evalCount = @ + 1]
               /\ hist' = [ha EXCEPT !.hx = r.W,
                                     !.logLine = <<LogLine(ctx.evalCount, r.W, theta, n)>>]

\* mutant: only an internal work vector longer than the residual is refused
EvalResidualShort(theta, n, h) ==
    LET r == InternalWork(theta, build_cache(problem.params), feStore, problem, input.matOk)
        ha == [h EXCEPT !.applyFailed = ~r.applied,
                        !.applyStore = feStore,
                        !.applyValues = ParamValues(problem.params),
                        !.applyTheta = theta,
                        !.iw = r.W, !.iwReads = r.reads, !.iwTheta = r.store]
    IN /\ problem' = r.problem
       /\ feStore' = r.store
       /\ IF Len(r.W) > n
          THEN /\ err' = IF r.err = "" THEN "internal work dimension mismatch" ELSE r.err
               /\ ctx' = [ctx EXCEPT !.failed = TRUE]
               /\ hist' = [ha EXCEPT !.hx = Zeros(n), !.firstLatch = hist.calls + 1,
                                     !.logLine = <<>>]
          ELSE /\ err' = IF r.err # "" THEN r.err ELSE err
               /\ ctx' = [ctx EXCEPT !.evalCount = @ + 1]
               /\ hist' = [ha EXCEPT !.hx = r.W,
                                     !.logLine = <<LogLine(ctx.evalCount + 1, r.W, theta, n)>>]

\* mutant: a mismatch is latched with the text of the assembler only
EvalResidualNoText(theta, n, h) ==
    LET r == InternalWork(theta, build_cache(problem.params), feStore, problem, input.matOk)
        ha == [h EXCEPT !.applyFailed = ~r.applied,
                        !.applyStore = feStore,
                        !.applyValues = ParamValues(problem.params),
                        !.applyTheta = theta,
                        !.iw = r.W, !.iwReads = r.reads, !.iwTheta = r.store]
    IN /\ problem' = r.problem
       /\ feStore' = r.store
       /\ IF Len(r.W) # n
          THEN /\ err' = r.err
               /\ ctx' = [ctx EXCEPT !.failed = TRUE]
               /\ hist' = [ha EXCEPT !.hx = Zeros(n), !.firstLatch = hist.calls + 1,
                                     !.logLine = <<>>]
          ELSE /\ err' = IF r.err # "" THEN r.err ELSE err
               /\ ctx' = [ctx EXCEPT !.evalCount = @ + 1]
               /\ hist' = [ha EXCEPT !.hx = r.W,
                                     !.logLine = <<LogLine(ctx.evalCount + 1, r.W, theta, n)>>]

\* lm_internal_eval computing the internal work at theta
EvalResidual(theta, n, h) ==
    LET r == InternalWork(theta, build_cache(problem.params), feStore, problem, input.matOk)
        ha == [h EXCEPT !.applyFailed = ~r.applied,
                        !.applyStore = feStore,
                        !.applyValues = ParamValues(problem.params),
                        !.applyTheta = theta,
                        !.iw = r.W, !.iwReads = r.reads, !.iwTheta = r.store]
    IN /\ problem' = r.problem
       /\ feStore' = r.store
       /\ IF Len(r.W) # n
          THEN /\ err' = IF r.err = "" THEN "internal work dimension mismatch" ELSE r.err
               /\ ctx' = [ctx EXCEPT !.failed = TRUE]
               /\ hist' = [ha EXCEPT !.hx = Zeros(n), !.firstLatch = hist.calls + 1,
                                     !.logLine = <<>>]
          ELSE /\ err' = IF r.err # "" THEN r.err ELSE err
               /\ ctx' = [ctx EXCEPT !.evalCount = @ + 1]
               /\ hist' = [ha EXCEPT !.hx = r.W,
                                     !.logLine = <<LogLine(ctx.evalCount + 1, r.W, theta, n)>>]

\* mutant: the callback never looks at the cancellation flag
lm_internal_eval_deaf(theta) ==
    LET n == Len(ew)
        h == [hist EXCEPT !.calls = @ + 1]
    IN IF ctx.failed THEN EvalLatched(n, h)
       ELSE EvalResidual(theta, n, h)

\* mutant: the cancellation flag is polled by the first callback only
lm_internal_eval_polls_once(theta) ==
    LET n == Len(ew)
        h == [hist EXCEPT !.calls = @ + 1]
    IN IF ctx.failed THEN EvalLatched(n, h)
       ELSE IF g_levmarInterrupt /\ hist.calls = 0 THEN EvalCancelled(n, h)
       ELSE EvalResidual(theta, n, h)

\* lm_internal_eval, as one call made by dlevmar with the vector theta
lm_internal_eval(theta) ==
    LET n == Len(ew)
        h == [hist EXCEPT !.calls = @ + 1]
    IN IF ctx.failed THEN EvalLatched(n, h)
       ELSE IF g_levmarInterrupt THEN EvalCancelled(n, h)
       ELSE EvalResidual(theta, n, h)

\* dlevmar_dif / dlevmar_bc_dif asks for one residual: first at the start
\* vector, then at trial vectors and at the probes of the Jacobian; it may
\* keep a trial vector as its new estimate
LmEval ==
    /\ pc = "lm"
    /\ hist.calls < MaxEvals
    /\ Len(ew) >= Len(lmParams)
    /\ \E theta \in TrialSet(Len(lmParams), problem.method) \cup JacobianProbes(lmParams) :
         /\ hist.calls = 0 => theta = lmParams
         /\ lm_internal_eval(theta)
         /\ \E accept \in BOOLEAN :
              /\ accept => theta \in TrialSet(Len(lmParams), problem.method)
              /\ lmParams' = IF accept THEN theta ELSE lmParams
    /\ UNCHANGED <<input, pc, exitAt, ew, status, g_levmarInterrupt, sigint, plot>>
    /\ UNCHANGED planeVars

\* dlevmar refuses a problem with fewer residuals than unknowns: LM_ERROR
LmRefuse ==
    /\ pc = "lm"
    /\ hist.calls = 0
    /\ Len(ew) < Len(lmParams)
    /\ status' = 0 - 1
    /\ pc' = "lm_ret"
    /\ UNCHANGED <<input, problem, feStore, exitAt, err, ew, lmParams, ctx,
                   g_levmarInterrupt, sigint, plot, hist>>
    /\ UNCHANGED planeVars

\* dlevmar returns the number of iterations it made
LmReturn ==
    /\ pc = "lm"
    /\ hist.calls >= 1
    /\ status' = hist.calls - 1
    /\ pc' = "lm_ret"
    /\ UNCHANGED <<input, problem, feStore, exitAt, err, ew, lmParams, ctx,
                   g_levmarInterrupt, sigint, plot, hist>>
    /\ UNCHANGED planeVars

\* outcomes of the file system calls
IoOutcomes == {"ok", "open", "write"}

\* the virtual-work text file of solve_vfm_problem: "" or the error
SaveVirtualWork(prob, iw, io) ==
    LET vfCount == Len(prob.virtuals)
    IN IF prob.saveVirtualWork = "" THEN ""
       ELSE IF vfCount = 0 \/ Len(iw) = 0 \/ Len(ew) = 0 THEN ""
       ELSE IF Len(iw) # Len(ew) THEN "internal/external virtual work size mismatch."
       ELSE IF Len(iw) % vfCount # 0
       THEN "virtual work data size is not divisible by the number of virtual fields."
       ELSE IF io = "open"
       THEN "failed to open virtual work output file: " \o prob.saveVirtualWork
       ELSE IF io = "write"
       THEN "failed while writing virtual work output file: " \o prob.saveVirtualWork
       ELSE ""

\* mutant: a failed run is started over instead of being reported
LevmarFailedRetry ==
    /\ pc' = "lm"
    /\ UNCHANGED <<err, exitAt, problem, feStore, hist>>

\* run_vfm_levmar, "if (ctx.failed)" after dlevmar returned
LevmarFailed ==
    /\ err' = IF err = "" /\ g_levmarInterrupt THEN "optimization interrupted" ELSE err
    /\ pc' = "runFailed" /\ exitAt' = "lm"
    /\ UNCHANGED <<problem, feStore, hist>>

\* mutant: the guard leaves the handler it bound
SigintLeftBound(installed, previous, current) == current

\* ~ScopedSigintHandler: the handler bound to SIGINT once the guard is gone
SigintRestored(installed, previous, current) ==
    IF installed THEN previous ELSE current

\* run_vfm_levmar after dlevmar returned (the handler guard is destroyed on
\* return), then the rest of solve_vfm_problem
SolveFinish ==
    /\ pc = "lm_ret"
    /\ sigint' = SigintRestored(TRUE, "previous", sigint)
    /\ \E io \in IoOutcomes :
         LET a == apply(lmParams, build_cache(problem.params), feStore, problem.params)
             s == computeStress(problem.def, problem.stresses, a.store, input.matOk)
             w == IWAssemble(problem.vdef, s.stresses)
             pa == [problem EXCEPT !.params = a.params]
             ps == [pa EXCEPT !.stresses = s.stresses]
             sv == SaveVirtualWork(problem, w.W, io)
         IN IF ctx.failed THEN LevmarFailed
            ELSE IF status < 0
            THEN /\ err' = IF err = "" THEN "levmar failed" ELSE err
                 /\ pc' = "runFailed" /\ exitAt' = "status"
                 /\ UNCHANGED <<problem, feStore, hist>>
            ELSE IF ~a.ok
            THEN /\ err' = a.err /\ pc' = "runFailed" /\ exitAt' = "apply"
                 /\ problem' = pa /\ feStore' = a.store
                 /\ UNCHANGED hist
            ELSE IF ~s.ok
            THEN /\ err' = s.err /\ pc' = "runFailed" /\ exitAt' = "stress"
                 /\ problem' = ps /\ feStore' = a.store
                 /\ UNCHANGED hist
            ELSE /\ problem' = ps /\ feStore' = a.store
                 /\ hist' = [hist EXCEPT !.iw = w.W, !.iwReads = w.reads, !.iwTheta = a.store]
                 /\ IF w.err # ""
                    THEN err' = w.err /\ pc' = "runFailed" /\ exitAt' = "iw"
                    ELSE IF sv # ""
                    THEN err' = sv /\ pc' = "runFailed" /\ exitAt' = "vw"
                    ELSE err' = err /\ pc' = "solved" /\ exitAt' = ""
    /\ UNCHANGED <<input, ew, lmParams, ctx, status, g_levmarInterrupt, plot>>
    /\ UNCHANGED planeVars

\* ----------------------------------------------------------------- export
MaxOf(S) == IF S = {} THEN 0 ELSE CHOOSE x \in S : \A y \in S : y <= x

\* number of plot states export_vfm_results writes
ExportTimes(prob) ==
    MaxOf({Len(prob.measured), Len(prob.def), Len(prob.stresses)}
          \cup {Len(prob.virtuals[v]) : v \in 1..Len(prob.virtuals)}
          \cup {Len(prob.vdef[v]) : v \in 1..Len(prob.vdef)})

\* export_vfm_results: verdict, error, and what became of the plot file.
\* io is the file operation that fails, k the plot state whose write fails
export_vfm_results(prob, io, k) ==
    LET maxTimes == ExportTimes(prob)
        noFrames == {v \in 1..Len(prob.virtuals) :
                        Len(prob.virtuals[v]) = 0 \/ Len(prob.vdef[v]) = 0}
    IN IF ~prob.fem
       THEN [ok |-> FALSE, at |-> "notInit", err |-> "VFM problem not initialized.",
             created |-> FALSE, states |-> 0]
       ELSE IF maxTimes = 0
       THEN [ok |-> FALSE, at |-> "noFrames", err |-> "No frames available for export.",
             created |-> FALSE, states |-> 0]
       ELSE IF noFrames # {}
       THEN [ok |-> FALSE, at |-> "vfEmpty",
             err |-> IF Len(prob.virtuals[CHOOSE v \in noFrames : \A o \in noFrames : v <= o]) = 0
                     THEN "virtual displacement field has no time steps."
                     ELSE "virtual deformation field has no time steps.",
             created |-> FALSE, states |-> 0]
       ELSE IF io = "open"
       THEN [ok |-> FALSE, at |-> "open", err |-> "Unable to create plot file: vfm.xplt",
             created |-> FALSE, states |-> 0]
       ELSE IF io = "write"
       THEN [ok |-> FALSE, at |-> "write", err |-> "Failed to write plot state.",
             created |-> TRUE, states |-> k - 1]
       ELSE [ok |-> TRUE, at |-> "", err |-> "", created |-> TRUE, states |-> maxTimes]

\* VFMTask::Run after a successful solve
Export ==
    /\ pc = "solved"
    /\ \E io \in IoOutcomes, k \in 1..(MaxT + 1) :
         /\ k <= MaxOf({1, ExportTimes(problem)})
         /\ io # "write" => k = 1
         /\ LET r == export_vfm_results(problem, io, k)
            IN /\ plot' = [created |-> r.created, states |-> r.states]
               /\ err' = r.err
               /\ exitAt' = r.at
               /\ pc' = IF r.ok THEN "exported" ELSE "runFailed"
    /\ UNCHANGED <<input, problem, feStore, ew, lmParams, ctx, status,
                   g_levmarInterrupt, sigint, hist>>
    /\ UNCHANGED planeVars

\* ----------------------------------------------------------- the machine
Next ==
    \/ TaskInit
    \/ SolveEnter
    \/ SolveAbort
    \/ SigintGuard
    \/ Interrupt
    \/ LmEval
    \/ LmRefuse
    \/ LmReturn
    \/ SolveFinish
    \/ Export

Spec == Init /\ [][Next]_vars

\* the task's own steps are taken as long as one is possible; SIGINT need not come
Step ==
    \/ TaskInit \/ SolveEnter \/ SolveAbort \/ SigintGuard
    \/ LmEval \/ LmRefuse \/ LmReturn \/ SolveFinish \/ Export

\* the thread that runs the optimisation keeps running once the fail flag is
\* latched (weak fairness of Step implies this condition)
FairSpec == Spec /\ WF_vars(ctx.failed /\ Step)

\* ------------------------------------------------------------- properties
\* the run phase has returned to its caller
Returned == pc \in {"runFailed", "solved", "exported"}

\* the solve returned non-success out of the LM call
LmFailure == pc = "runFailed" /\ exitAt \in {"lm", "status"}

\* C1: after a non-success return arising during LM (callback failure,
\* negative LM status, cancellation) the backing store of the constitutive
\* collaborator and the value fields of the parameter records equal theta0,
\* the values the records had when LM was entered.
C1_ParamsRestored ==
    LmFailure => /\ feStore = hist.theta0
                 /\ ParamValues(problem.params) = hist.theta0

\* C2: after a non-success return arising during LM the stress store is the
\* one computed from theta0: no frame holds values of another trial vector
\* or of an abandoned recomputation.
C2_StressRestored ==
    LmFailure => problem.stresses = StressFrom(problem.def, hist.theta0)

\* C3 as stated: if SIGINT sets the flag after the k-th residual evaluation,
\* k >= 1, and LM asks for a further evaluation, the run returns failure with
\* the message "optimization interrupted".
C3_AsStated ==
    (Returned /\ hist.intAfter >= 1 /\ hist.calls > hist.intAfter)
        => (pc = "runFailed" /\ err = "optimization interrupted")

\* C3 amended: the same, when none of the first k evaluations has latched
\* the fail flag; a failure latched earlier keeps its own message.
C3_Interrupted ==
    (Returned /\ hist.intAfter >= 1 /\ hist.calls > hist.intAfter
              /\ hist.firstLatch \notin 1..hist.intAfter)
        => (pc = "runFailed" /\ exitAt = "lm" /\ err = "optimization interrupted")

C3_Witness ==
    /\ pc = "runFailed" /\ err = "optimization interrupted"
    /\ hist.intAfter = 2 /\ hist.calls = 3 /\ hist.firstLatch = 3

\* C4: once the fail flag is latched, by a callback failure or by
\* cancellation, LM returns and the solve returns to its caller with failure;
\* the solve does not go on forever.
C4_LatchReturns == ctx.failed ~> (pc = "runFailed")

C4_Witness ==
    /\ pc = "runFailed" /\ ctx.failed
    /\ hist.firstLatch >= 1 /\ hist.calls > hist.firstLatch

\* C5: when apply(theta) reports failure, neither the backing store nor the
\* value of any parameter record was changed by that call.
C5_NoPartialCommit ==
    hist.applyFailed => /\ feStore = hist.applyStore
                        /\ ParamValues(problem.params) = hist.applyValues

\* T frames of measured and load data, and a virtual field whose frame count
\* is neither 1 nor T
BadFrameCount ==
    /\ pc \notin {"start", "setupFailed"}
    /\ Len(problem.loads) = Len(problem.measured)
    /\ \E v \in 1..Len(problem.virtuals) :
          Len(problem.virtuals[v]) \notin {1, Len(problem.loads)}

\* C6: a virtual field with a frame count that is neither 1 nor T makes the
\* problem be rejected, and no work vector is produced from it.
C6_BadCountRejected ==
    BadFrameCount => /\ ew = <<>>
                     /\ hist.iw = <<>>
                     /\ pc \notin {"solved", "exported"}

\* the frame of field v that time t has to use, by the field's own count
OwnFrame(series, t) == IF Len(series) = 1 THEN 1 ELSE t

\* C7: W_ext[v*T + t] is computed with the virtual displacement of frame t
\* of field v when v has T frames and of frame 0 when v has one frame.
C7_OwnFrameCount ==
    (hist.ewDone /\ ew # <<>>) =>
        LET T == Len(problem.loads)
        IN \A v \in 1..Len(problem.virtuals), t \in 1..T :
              Len(problem.virtuals[v]) \in {1, T} =>
                 ew[(v - 1) * T + t] =
                    EWAcc(problem.loads[t], problem.surfaces,
                          problem.virtuals[v][OwnFrame(problem.virtuals[v], t)],
                          Len(problem.loads[t]))

\* C8: W_int[v*T + t] is P(t) contracted with the virtual gradient of frame
\* 0 of v when v has one frame and of frame t when v has T frames, and no
\* other frame of v is read for it.
C8_FrameDispatch ==
    hist.iw # <<>> =>
        LET T == Len(problem.def)
            P == StressFrom(problem.def, hist.iwTheta)
        IN \A v \in 1..Len(problem.vdef), t \in 1..T :
              Len(problem.vdef[v]) \in {1, T} =>
                 LET f == OwnFrame(problem.vdef[v], t)
                 IN /\ hist.iw[(v - 1) * T + t] = P[t].P * (problem.vdef[v][f] - 1) * JW
                    /\ {r \in hist.iwReads : r[1] = v /\ r[2] = t} = {<<v, t, f>>}

C8_Witness ==
    /\ hist.iw # <<>>
    /\ Len(problem.def) = 2
    /\ \E v \in 1..Len(problem.vdef) : Len(problem.vdef[v]) = 1
    /\ \E v \in 1..Len(problem.vdef) : Len(problem.vdef[v]) = 2
    /\ hist.iw[Len(hist.iw)] # 0

\* C9: after setup returned failure the problem object is as after reset():
\* no model handle, no stores, no parameters.
C9_NoPartialProblem == pc = "setupFailed" => problem = ResetProblem

\* C10: whenever the run phase returns non-success, because the solve
\* failed, was cancelled, or a later step of the run failed, the plot file
\* has been neither created nor written.
C10_NoPlotOnFailure == pc = "runFailed" => ~plot.created /\ plot.states = 0

\* LM ran and the solve returned success: the exporter has not started
SolvedByLm == pc = "solved" /\ hist.lmEntered

\* C11: when LM succeeds, before the exporter reads anything the backing
\* store and the record values equal theta*, the vector LM returned, and
\* every stress frame is the one computed from theta*.
C11_CommitBeforeExport ==
    SolvedByLm => /\ feStore = lmParams
                  /\ ParamValues(problem.params) = lmParams
                  /\ problem.stresses = StressFrom(problem.def, lmParams)

\* C12: on every exit path of the solve the handler bound to SIGINT after
\* the return is the one bound before the solve began, and the cancellation
\* handler is bound for the whole time LM is running.
C12_HandlerScoped ==
    /\ pc \in {"lm", "lm_ret"} => sigint = "handle_sigint"
    /\ pc \in {"start", "ready", "setupFailed", "runFailed", "solved", "exported"}
          => sigint = "previous"

\* a cancelled run has returned
C12_Witness ==
    /\ pc = "runFailed" /\ exitAt = "lm"
    /\ hist.interrupts >= 1 /\ g_levmarInterrupt
    /\ sigint = "previous"

\* what setup computes and the solve only reads
SetupData(prob) ==
    <<prob.fem, prob.dims, prob.surfaces, prob.measured, prob.virtuals, prob.loads,
      prob.def, prob.vdef, prob.method, prob.saveVirtualWork>>

\* C13: from the end of setup until the run returns no step of the solve
\* changes the mesh facts, the surface map, the measured or virtual
\* displacements, the measured or virtual deformation gradients, and, once
\* it is computed, the external work vector; the stress store and the
\* parameters are the only things written.
C13_SetupDataReadOnly ==
    [][/\ pc # "start" => SetupData(problem') = SetupData(problem)
       /\ pc \in {"lm_install", "lm", "lm_ret"} => ew' = ew]_vars

\* a run with several residual evaluations and the virtual-work file written
C13_Witness ==
    /\ pc = "exported" /\ hist.lmEntered
    /\ hist.calls = MaxEvals
    /\ problem.saveVirtualWork # ""
    /\ problem.stresses # <<>> /\ lmParams # hist.theta0

\* the load entries whose surface the surface map does not resolve to nodes
BadSurfaceEntries ==
    UNION {{<<t, e>> : e \in EWBadEntries(problem.loads[t], problem.surfaces)} :
              t \in 1..Len(problem.loads)}

\* C14: a load entry naming a surface that is absent from the surface map
\* or has no nodes is fatal: setup, or at the latest the external-work
\* assembly, returns an error that names the surface, the run never
\* succeeds, and no external-work vector is produced from such an entry.
C14_BadSurfaceFatal ==
    BadSurfaceEntries # {} =>
        /\ pc \notin {"solved", "exported"}
        /\ ~hist.ewDone
        /\ pc = "runFailed" /\ exitAt = "ew" =>
              \E te \in BadSurfaceEntries :
                 err = EWEntryError(problem.loads[te[1]][te[2]], problem.surfaces)

\* C15: a residual evaluation whose internal work vector differs in length
\* from the external work vector latches the fail flag and hands LM zeros
\* only, and the run does not succeed.
C15_MismatchLatches ==
    hist.lmEntered /\ hist.calls >= 1 /\ Len(hist.iw) # Len(ew) =>
        /\ ctx.failed
        /\ hist.hx = Zeros(Len(ew))
        /\ pc \notin {"solved", "exported"}

\* fewer measured frames than load frames: a shorter, non-empty internal
\* work vector was assembled and the run has failed on it
C15_Witness ==
    /\ pc = "runFailed" /\ exitAt = "lm"
    /\ err = "internal work dimension mismatch"
    /\ hist.iw # <<>> /\ Len(hist.iw) < Len(ew)
    /\ hist.hx = Zeros(Len(ew))

\* the virtual deformation gradients compute_virtuals has written
VdefWritten ==
    {<<v, t>> \in (1..Len(problem.vdef)) \X (1..(MaxT + 2)) :
        t <= Len(problem.vdef[v]) /\ problem.vdef[v][t] # Unset}

\* C16: one failing setup step aborts setup: setup returns the error of
\* that step and nothing a later step produces has been produced, whether
\* parameters, stores, deformation gradients or the surface map.
C16_SetupStopsAtFailure ==
    pc = "setupFailed" =>
        /\ err # ""
        /\ exitAt \in {"ext", "mesh", "measuredU"} => problem.params = <<>>
        /\ exitAt \in {"ext", "mesh", "measuredU", "params"} =>
              problem.measured = <<>> /\ problem.def = <<>> /\ problem.vdef = <<>>
        /\ exitAt \in {"ext", "mesh", "measuredU", "params", "kinematics"} =>
              problem.surfaces = <<>>
        /\ exitAt = "kinematics" /\ compute_measured(problem.measured).err # "" =>
              VdefWritten = {}

InBox(theta) ==
    /\ Len(theta) = Len(problem.params)
    /\ \A k \in 1..Len(theta) :
          problem.params[k].lo <= theta[k] /\ theta[k] <= problem.params[k].hi

\* C18: in bounded mode every vector passed to the residual callback, and
\* so every vector the callback has written into the material, lies within
\* [lo, hi] in every component, and so does the vector LM returns.
C18_CallbackInBox ==
    hist.lmEntered /\ problem.method = "ConstrainedLevmar" =>
        /\ hist.iwTheta # <<>> /\ ~hist.applyFailed => InBox(hist.iwTheta)
        /\ pc \in {"lm_ret", "solved", "exported"} => InBox(lmParams)

\* C19: after an apply call of a residual callback has reported success,
\* the model holds theta[i] at the location of every parameter i and every
\* parameter record holds theta[i] as its value, until the next apply call.
C19_ApplyCommits ==
    /\ pc \in {"lm", "lm_ret"}
    /\ hist.applyTheta # <<>> /\ ~hist.applyFailed
    => /\ feStore = hist.applyTheta
       /\ ParamValues(problem.params) = hist.applyTheta

\* C20: whenever setup or the run returns failure the error text handed to
\* the caller is not empty, and the steps whose failure is recognised by
\* their error text alone, the kinematic reconstruction and the external
\* work assembly, have not failed when the task went on past them.
C20_FailureHasText ==
    /\ pc \in {"setupFailed", "runFailed"} => err # ""
    /\ pc \notin {"start", "setupFailed"} =>
          /\ compute_measured(problem.measured).err = ""
          /\ compute_virtuals(problem.virtuals).err = ""
    /\ pc \in {"lm_install", "lm", "lm_ret"} =>
          ExternalWork(problem.surfaces, problem.virtuals, problem.loads, 0).err = ""

\* no measured frame at all: the assembler returns the empty vector and no
\* text, and the run fails with the text the callback supplies
C20_Witness ==
    /\ pc = "runFailed" /\ exitAt = "lm"
    /\ hist.iw = <<>> /\ hist.firstLatch = 1 /\ hist.interrupts = 0
    /\ ~hist.applyFailed
    /\ err = "internal work dimension mismatch"

\* a parameter record that satisfies the invariants of the data model
ValidParam(p) == p.name # "" /\ p.lo <= p.init /\ p.init <= p.hi /\ p.scale # 0

\* C21: once the parameters are loaded every record has a non-empty name,
\* lo <= init <= hi, a non-zero scale and, until the solve applies a vector,
\* value = init; an input record violating one of these makes loading fail
\* and setup return failure.
C21_ParamsValidated ==
    /\ pc \notin {"start", "setupFailed"} =>
          /\ Len(problem.params) = input.nParams
          /\ \A k \in 1..Len(problem.params) : ValidParam(problem.params[k])
    /\ pc = "ready" =>
          \A k \in 1..Len(problem.params) :
             problem.params[k].value = problem.params[k].init
    /\ pc # "start" /\ (\E k \in 1..input.nParams : ~ValidParam(XmlParams(input)[k])) =>
          pc = "setupFailed" /\ exitAt = "params" /\ err # ""

\* loading has stopped at a second record whose scale is zero, after the
\* first record was stored
C21_Witness ==
    /\ pc = "setupFailed" /\ exitAt = "params"
    /\ input.nParams = 2 /\ XmlParams(input)[2].scale = 0
    /\ Len(problem.params) = 1 /\ ValidParam(problem.params[1])
    /\ err = "Parameters[k]: invalid scale"

\* the backing stores an earlier run of the process can have left behind
StoresLeft == [1..input.nParams -> {FeValue, LoVal, HiVal}]

\* the vector a first evaluation at theta writes in a run that starts from
\* the same input with the backing store s0
FreshResidual(theta, s0) ==
    LET p == prepare_vfm_problem(input).problem
    IN InternalWork(theta, build_cache(p.params), s0, p, input.matOk).W

MaxEntry == 2
MaxPasses == 2

\* mutant: the denominator is taken from the out-of-plane entry
planeDeformationCompound(F) ==
    LET denom == Mul(F[1][1], F[3][3])
    IN [F EXCEPT ![1][3] = Rat(0, 1), ![2][3] = Rat(0, 1),
                 ![3][1] = Rat(0, 1), ![3][2] = Rat(0, 1),
                 ![3][3] = Recip(denom)]

\* Kinematics::compute_measured, the block under "if (planeDeformation)"
planeDeformation(F) ==
    LET denom == Mul(F[1][1], F[2][2])
    IN [F EXCEPT ![1][3] = Rat(0, 1), ![2][3] = Rat(0, 1),
                 ![3][1] = Rat(0, 1), ![3][2] = Rat(0, 1),
                 ![3][3] = Recip(denom)]

\* the F that F_at hands over: any diagonal, shears present or not
PlaneInputs ==
    {[i \in 1..3 |-> [j \in 1..3 |->
         IF i = j THEN Rat(dg[i], 1) ELSE Rat(sh[i][j], 1)]] :
       dg \in [1..3 -> (0 - 1)..MaxEntry], sh \in [1..3 -> [1..3 -> {0, 1}]]}

PlaneInit ==
    /\ input \in {i \in Inputs : WellFormedInput(i) /\ EarlierRunInput(i) /\ i.vfTimes = <<>>}
    /\ problem = ResetProblem
    /\ feStore = [i \in 1..input.nParams |-> FeValue]
    /\ pc = "compute_measured"
    /\ exitAt = ""
    /\ err = ""
    /\ ew = <<>>
    /\ lmParams = <<>>
    /\ ctx = [failed |-> FALSE, evalCount |-> 0]
    /\ status = 0
    /\ g_levmarInterrupt = FALSE
    /\ sigint = "previous"
    /\ plot = [created |-> FALSE, states |-> 0]
    /\ hist = NoHist
    /\ Fmat \in PlaneInputs
    /\ passes = 0

\* one run of the block on the F at hand
PlaneDeformation ==
    /\ pc = "compute_measured"
    /\ passes < MaxPasses
    /\ Fmat' = planeDeformation(Fmat)
    /\ passes' = passes + 1
    /\ UNCHANGED <<input, problem, feStore, pc, exitAt, err, ew, lmParams, ctx, status,
                   g_levmarInterrupt, sigint, plot, hist>>

PlaneNext == PlaneDeformation

PlaneSpec == PlaneInit /\ [][PlaneNext]_vars

\* C23: the plane-deformation block applied to an F it has already been
\* applied to leaves that F as it is: twice is the same as once.
C23_SecondPassKeepsF == [][passes >= 1 => Fmat' = Fmat]_vars

C23_Witness ==
    /\ passes = 2
    /\ Fmat[3][3] = Rat(1, 4)
    /\ Fmat[1][2] = Rat(1, 1)
    /\ Fmat[1][3] = Rat(0, 1)

\* C24: once ctx.failed is latched it stays latched while dlevmar runs; every
\* later callback writes zeros to the whole residual, applies no parameter
\* and recomputes no stress, and the error text of the latch is kept.
C24_LatchKept ==
    [][pc = "lm" /\ ctx.failed =>
          /\ ctx'.failed
          /\ err' = err /\ err # ""
          /\ feStore' = feStore /\ problem' = problem
          /\ hist'.calls # hist.calls =>
                /\ hist'.hx = Zeros(Len(ew))
                /\ hist'.applyTheta = hist.applyTheta /\ hist'.iw = hist.iw]_vars

C24_Witness ==
    /\ pc = "lm" /\ ctx.failed
    /\ hist.firstLatch = 1 /\ hist.calls = 3
    /\ hist.interrupts = 1 /\ hist.intAfter >= 1 /\ g_levmarInterrupt
    /\ err = "internal work dimension mismatch"
    /\ Len(hist.hx) >= 1 /\ hist.hx = Zeros(Len(ew))

\* C25: a callback that begins with the cancellation flag set writes zero to
\* every residual component and latches ctx.failed, and it neither applies a
\* parameter nor recomputes a stress: the flag is looked at before either.
C25_CancelBeforeApply ==
    [][pc = "lm" /\ g_levmarInterrupt /\ hist'.calls # hist.calls =>
          /\ hist'.hx = Zeros(Len(ew))
          /\ ctx'.failed
          /\ feStore' = feStore
          /\ problem' = problem
          /\ hist'.applyTheta = hist.applyTheta /\ hist'.iw = hist.iw]_vars

C25_Witness ==
    /\ pc = "lm" /\ g_levmarInterrupt /\ ctx.failed
    /\ hist.calls = 2 /\ hist.intAfter = 1 /\ hist.firstLatch = 2
    /\ hist.applyTheta = hist.theta0 /\ feStore = hist.theta0
    /\ lmParams # hist.theta0
    /\ Len(hist.hx) >= 1 /\ hist.hx = Zeros(Len(ew))

\* C26: in every residual evaluation the parameters are applied first, the
\* stresses are recomputed from the applied parameters, and the internal work
\* is assembled from the recomputed stresses; a failing apply leaves the
\* stress store alone and a failing stress recomputation assembles nothing.
C26_ApplyStressAssemble ==
    [][pc = "lm" /\ ~ctx.failed /\ ~g_levmarInterrupt /\ hist'.calls # hist.calls =>
          LET a == apply(hist'.applyTheta, build_cache(problem.params), feStore, problem.params)
              s == computeStress(problem.def, problem.stresses, feStore', input.matOk)
          IN /\ feStore' = a.store
             /\ ~a.ok => /\ problem'.stresses = problem.stresses
                         /\ hist'.iw = <<>> /\ hist'.iwReads = {}
             /\ a.ok => problem'.stresses = s.stresses
             /\ a.ok /\ ~s.ok => hist'.iw = <<>> /\ hist'.iwReads = {}
             /\ a.ok /\ s.ok =>
                   hist'.iw = IWAssemble(problem.vdef, problem'.stresses).W]_vars

C26_Witness ==
    /\ pc = "lm" /\ ~ctx.failed /\ hist.calls >= 2
    /\ hist.applyStore # feStore /\ feStore = hist.applyTheta
    /\ problem.stresses = StressFrom(problem.def, feStore)
    /\ problem.stresses # StressFrom(problem.def, hist.applyStore)
    /\ hist.iw = hist.hx /\ \E k \in 1..Len(hist.iw) : hist.iw[k] # 0

\* C27: a SIGINT delivered once the handler is bound and before the last
\* callback of the run begins is not lost: the flag is still set when the
\* next callback begins, and the run returns failure.
C27_SignalKept ==
    /\ pc = "lm" /\ hist.interrupts >= 1 /\ hist.calls = hist.intAfter => g_levmarInterrupt
    /\ Returned /\ hist.interrupts >= 1 /\ hist.calls > hist.intAfter => pc = "runFailed"

\* C28: whenever the solve has returned success, also through the early
\* returns for no parameters or an empty external work vector, the stress
\* store holds one frame per measured deformation frame, computed from the
\* values the parameter records hold.
C28_StressPerFrame ==
    pc \in {"solved", "exported"} =>
        /\ Len(problem.stresses) = Len(problem.def)
        /\ problem.params # <<>> =>
              problem.stresses = StressFrom(problem.def, ParamValues(problem.params))

\* C29: a cancellation flag left set by an earlier interrupted solve does not
\* cancel this solve: when the first callback begins the flag is false unless
\* a SIGINT came after this solve bound its handler, and a solve that got no
\* SIGINT is never latched as interrupted.
C29_LeftFlagCleared ==
    /\ pc = "lm" /\ hist.calls = 0 /\ hist.interrupts = 0 => ~g_levmarInterrupt
    /\ hist.interrupts = 0 => ~(ctx.failed /\ err = "optimization interrupted")

C29_Witness ==
    /\ pc = "lm" /\ hist.cleared /\ hist.interrupts = 0
    /\ hist.calls = 1 /\ ~ctx.failed /\ ~g_levmarInterrupt
    /\ hist.applyTheta = hist.theta0 /\ hist.iw = hist.hx /\ Len(hist.hx) >= 1

============================================================================
